---- MODULE Spec2Model ----
(***************************************************************************)
(* A model of src/app.py (Moca SERP gap, a Streamlit script).              *)
(*                                                                         *)
(* Text is modelled as a sequence of one-character strings, so that        *)
(* lower-casing, prefix/suffix tests, stripping and splitting are computed *)
(* as the code computes them.                                              *)
(*                                                                         *)
(* One execution of the script is the sequence PressRun, SearchFetch,      *)
(* EnrichUrl (once per result), FinishRun, Render; Rerun is an execution   *)
(* without the button.  The providers answer each request freely, so the   *)
(* memoisation of the three fetch functions (st.cache_data) is covered as  *)
(* the case of equal answers.  The keyword payloads of the script always   *)
(* carry a keyword column.  The password gate in front of the script is    *)
(* left out.                                                               *)
(***************************************************************************)
EXTENDS Integers, Sequences, FiniteSets, TLC

VARIABLES
    secrets,        \* the three credentials (st.secrets / os.getenv), "" when missing
    session_state,  \* st.session_state: a function whose domain is the keys present
    pc,             \* position of the script: "idle", "search", "enrich", "render"
    loc,            \* the script's local variables during an execution
    page,           \* what the finished (or stopped) execution left on the page
    requests,       \* the provider requests sent during the current execution
    probe           \* a single call of a helper function: its arguments and result

vars == <<secrets, session_state, pc, loc, page, requests, probe>>

(***************************************************************************)
(* Text helpers                                                            *)
(***************************************************************************)
LowerAlphabet == <<"a","b","c","d","e","f","g","h","i","j","k","l","m",
                   "n","o","p","q","r","s","t","u","v","w","x","y","z">>
UpperAlphabet == <<"A","B","C","D","E","F","G","H","I","J","K","L","M",
                   "N","O","P","Q","R","S","T","U","V","W","X","Y","Z">>
DigitChars == <<"0","1","2","3","4","5","6","7","8","9">>

Range(s) == {s[i] : i \in DOMAIN s}

IsAlpha(c) == c \in Range(LowerAlphabet) \cup Range(UpperAlphabet)
IsDigit(c) == c \in Range(DigitChars)

\* str.lower() on one character
LowerChar(c) ==
    IF c \in Range(UpperAlphabet)
    THEN LowerAlphabet[CHOOSE i \in DOMAIN UpperAlphabet : UpperAlphabet[i] = c]
    ELSE c

\* str.lower()
Lower(s) == [i \in DOMAIN s |-> LowerChar(s[i])]

\* s[:n]
Take(s, n) == SubSeq(s, 1, IF n < Len(s) THEN n ELSE Len(s))
\* s[n:]
Drop(s, n) == SubSeq(s, n + 1, Len(s))

\* str.startswith / str.endswith
StartsWith(s, p) == Len(p) <= Len(s) /\ SubSeq(s, 1, Len(p)) = p
EndsWith(s, p) == Len(p) <= Len(s) /\ SubSeq(s, Len(s) - Len(p) + 1, Len(s)) = p

\* str.find: the first position (1-based) of a character of cs in s, 0 when none
FindAny(s, cs) ==
    IF \E i \in DOMAIN s : s[i] \in cs
    THEN CHOOSE i \in DOMAIN s : s[i] \in cs /\ \A j \in 1..(i - 1) : s[j] \notin cs
    ELSE 0

\* str.strip(chars): drop the characters of cs from both ends
RECURSIVE LStrip(_, _)
LStrip(s, cs) == IF s # <<>> /\ Head(s) \in cs THEN LStrip(Tail(s), cs) ELSE s
RECURSIVE RStrip(_, _)
RStrip(s, cs) ==
    IF s # <<>> /\ s[Len(s)] \in cs THEN RStrip(SubSeq(s, 1, Len(s) - 1), cs) ELSE s
StripChars(s, cs) == RStrip(LStrip(s, cs), cs)
Whitespace == {" ", "\n", "\t", "\r"}
Strip(s) == StripChars(s, Whitespace)

\* split s at every character of seps (empty fields kept), as re.split / str.split(sep)
RECURSIVE SplitOn(_, _)
SplitOn(s, seps) ==
    LET i == FindAny(s, seps)
    IN  IF i = 0 THEN <<s>>
        ELSE <<SubSeq(s, 1, i - 1)>> \o SplitOn(Drop(s, i), seps)

\* the text joined by a separator: sep.join(parts)
RECURSIVE Join(_, _)
Join(parts, sep) ==
    IF parts = <<>> THEN <<>>
    ELSE IF Len(parts) = 1 THEN parts[1]
    ELSE parts[1] \o sep \o Join(Tail(parts), sep)

\* int(text) of a non-empty run of decimal digits
DigitVal(c) == (CHOOSE i \in DOMAIN DigitChars : DigitChars[i] = c) - 1
RECURSIVE DecimalValue(_)
DecimalValue(s) ==
    IF s = <<>> THEN 0
    ELSE 10 * DecimalValue(SubSeq(s, 1, Len(s) - 1)) + DigitVal(s[Len(s)])

\* the code-point order of the characters compared here: digits, upper case, lower case
CodePointOrder == DigitChars \o UpperAlphabet \o LowerAlphabet
CharOrd(c) == CHOOSE i \in DOMAIN CodePointOrder : CodePointOrder[i] = c

\* Python's ordering of two strings (code-point order, a proper prefix first)
RECURSIVE StrLess(_, _)
StrLess(a, b) ==
    IF b = <<>> THEN FALSE
    ELSE IF a = <<>> THEN TRUE
    ELSE IF Head(a) # Head(b) THEN CharOrd(Head(a)) < CharOrd(Head(b))
    ELSE StrLess(Tail(a), Tail(b))

\* sorted(list(S)) of a set of strings
RECURSIVE SortedStrings(_)
SortedStrings(S) ==
    IF S = {} THEN <<>>
    ELSE LET least == CHOOSE x \in S : \A y \in S \ {x} : StrLess(x, y)
         IN  <<least>> \o SortedStrings(S \ {least})

\* dict.get(k, default)
Get(f, k, default) == IF k \in DOMAIN f THEN f[k] ELSE default

(***************************************************************************)
(* Domain Matcher: normalize_domain, belongs_to_site                       *)
(***************************************************************************)
SchemeChars == Range(LowerAlphabet) \cup Range(UpperAlphabet) \cup Range(DigitChars)
                 \cup {"+", "-", "."}

\* urlparse(u).netloc: an optional scheme up to the first ":", then, when "//" follows,
\* everything up to the first "/", "?" or "#"
urlparse_netloc(u) ==
    LET i == FindAny(u, {":"})
        hasScheme == i > 1 /\ IsAlpha(u[1]) /\ \A j \in 1..(i - 1) : u[j] \in SchemeChars
        rest == IF hasScheme THEN Drop(u, i) ELSE u
    IN  IF StartsWith(rest, <<"/", "/">>)
        THEN LET after == Drop(rest, 2)
                 d == FindAny(after, {"/", "?", "#"})
             IN  IF d = 0 THEN after ELSE SubSeq(after, 1, d - 1)
        ELSE <<>>

s_www == <<"w","w","w",".">>

normalize_domain(u) ==
    LET d == Lower(urlparse_netloc(u))
    IN  IF StartsWith(d, s_www) THEN Drop(d, 4) ELSE d

belongs_to_site(url, site_domain) ==
    LET d == normalize_domain(url)
    IN  site_domain # <<>> /\ EndsWith(d, site_domain)

s_https == <<"h","t","t","p","s",":","/","/">>

\* the run block's normalisation of the sidebar's domain field
my_dom_norm_of(my_domain) ==
    IF my_domain # <<>> THEN normalize_domain(s_https \o my_domain) ELSE <<>>

(***************************************************************************)
(* Keyword Fetcher: semrush_keywords_by_url                                *)
(*                                                                         *)
(* A data frame is [columns, rows]: the column names and the rows, each    *)
(* row a sequence of cells aligned with the columns.  A cell is text; the  *)
(* missing value (NaN) is the empty text.  A provider response is          *)
(* [net, status, text]: net = "fail" when requests.get itself raises.      *)
(***************************************************************************)
EmptyFrame == [columns |-> <<>>, rows |-> <<>>]

\* DataFrame.empty: no rows or no columns
IsEmptyFrame(df) == df.columns = <<>> \/ df.rows = <<>>

c_Ph == <<"P","h">>
c_Po == <<"P","o">>
c_Nq == <<"N","q">>
c_Ur == <<"U","r">>
c_Url == <<"U","r","l">>
c_Keyword == <<"K","e","y","w","o","r","d">>
c_Position == <<"P","o","s","i","t","i","o","n">>
c_Volume == <<"V","o","l","u","m","e">>
c_URL == <<"U","R","L">>
s_error == <<"e","r","r","o","r">>

col_map(name) ==
    CASE name \in {c_Ph, c_Keyword} -> c_Keyword
      [] name \in {c_Po, c_Position} -> c_Position
      [] name \in {c_Nq, c_Volume} -> c_Volume
      [] name \in {c_Ur, c_Url} -> c_URL
      [] OTHER -> name

\* the position of a column, 0 when the frame has no such column
ColIndex(columns, name) ==
    IF \E i \in DOMAIN columns : columns[i] = name
    THEN CHOOSE i \in DOMAIN columns : columns[i] = name
    ELSE 0

\* pd.read_csv(io.StringIO(raw), sep=";|,", engine="python"): blank lines skipped, the
\* first line is the header, a short row is padded with missing values
read_csv(raw) ==
    LET lines == SelectSeq(SplitOn(raw, {"\n"}), LAMBDA l : l # <<>>)
        header == SplitOn(lines[1], {";", ","})
        fields(k) == SplitOn(lines[k + 1], {";", ","})
    IN  [columns |-> header,
         rows |-> [k \in 1..(Len(lines) - 1) |->
                      [j \in 1..Len(header) |->
                          IF j <= Len(fields(k)) THEN fields(k)[j] ELSE <<>>]]]

\* pd.to_numeric(cell, errors="coerce"): <<n>> for a run of digits, <<>> (NaN) otherwise
to_numeric(cell) ==
    IF cell # <<>> /\ \A i \in DOMAIN cell : IsDigit(cell[i])
    THEN <<DecimalValue(cell)>>
    ELSE <<>>

PositionLimit == 20
VolumeFloor == 20

\* a variant of position_kept that drops the rows at the limit itself
PositionKeptBelowLimit(cell) == to_numeric(cell) # <<>> /\ to_numeric(cell)[1] < PositionLimit

\* pd.to_numeric(Position, errors="coerce") <= 20 (a comparison with NaN is false)
position_kept(cell) == to_numeric(cell) # <<>> /\ to_numeric(cell)[1] <= PositionLimit

\* pd.to_numeric(Volume, errors="coerce") >= 20
volume_kept(cell) == to_numeric(cell) # <<>> /\ to_numeric(cell)[1] >= VolumeFloor

\* the dtype read_csv infers: numeric when every cell is a number or missing
IsNumericColumn(rows, j) == \A k \in DOMAIN rows : rows[k][j] = <<>> \/ to_numeric(rows[k][j]) # <<>>

\* the order of two kept cells of one sort column: by value in a numeric column, as
\* strings in an object column
CellLess(a, b, numeric) ==
    IF numeric THEN to_numeric(a)[1] < to_numeric(b)[1] ELSE StrLess(a, b)

\* sort_values(["Position", "Volume"]) order; pi / vi are the column positions (0: absent)
RowLess(a, b, pi, vi, posNumeric) ==
    LET posLess == pi # 0 /\ CellLess(a[pi], b[pi], posNumeric)
        posSame == pi = 0 \/ (~CellLess(a[pi], b[pi], posNumeric) /\ ~CellLess(b[pi], a[pi], posNumeric))
        volLess == vi # 0 /\ CellLess(a[vi], b[vi], TRUE)
    IN  posLess \/ (posSame /\ volLess)

RECURSIVE InsertRow(_, _, _, _, _)
InsertRow(sorted, r, pi, vi, posNumeric) ==
    IF sorted = <<>> THEN <<r>>
    ELSE IF RowLess(r, Head(sorted), pi, vi, posNumeric) THEN <<r>> \o sorted
    ELSE <<Head(sorted)>> \o InsertRow(Tail(sorted), r, pi, vi, posNumeric)

\* a stable ascending sort (rows with equal keys keep their order)
RECURSIVE sort_values(_, _, _, _)
sort_values(rows, pi, vi, posNumeric) ==
    IF rows = <<>> THEN <<>>
    ELSE InsertRow(sort_values(SubSeq(rows, 1, Len(rows) - 1), pi, vi, posNumeric),
                   rows[Len(rows)], pi, vi, posNumeric)

\* lines 111-132: parse, rename, filter, sort, keep the known columns
keyword_frame(raw) ==
    LET parsed == read_csv(raw)
        columns == [j \in DOMAIN parsed.columns |-> col_map(parsed.columns[j])]
        pi == ColIndex(columns, c_Position)
        vi == ColIndex(columns, c_Volume)
        byPos == IF pi # 0
                 THEN SelectSeq(parsed.rows, LAMBDA r : position_kept(r[pi]))
                 ELSE parsed.rows
        byVol == IF vi # 0
                 THEN SelectSeq(byPos, LAMBDA r : volume_kept(r[vi]))
                 ELSE byPos
        sorted == IF pi # 0 \/ vi # 0
                  THEN sort_values(byVol, pi, vi, pi # 0 /\ IsNumericColumn(parsed.rows, pi))
                  ELSE byVol
        keep == SelectSeq(<<c_Keyword, c_Position, c_Volume, c_URL>>,
                          LAMBDA c : ColIndex(columns, c) # 0)
    IN  [columns |-> keep,
         rows |-> [k \in DOMAIN sorted |->
                      [j \in DOMAIN keep |-> sorted[k][ColIndex(columns, keep[j])]]]]

\* Response.raise_for_status(): an HTTPError for a 4xx or 5xx status
raises_for_status(resp) == resp.status >= 400 /\ resp.status < 600

\* The call's outcome: exc is the exception that leaves the function ("" when it
\* returns), df the frame returned, sent whether a request went to the provider.
semrush_keywords_by_url(key, page_url, resp) ==
    IF key = "" \/ page_url = <<>>
    THEN [exc |-> "", df |-> EmptyFrame, sent |-> FALSE]
    ELSE IF resp.net = "fail"
    THEN [exc |-> "ConnectionError", df |-> EmptyFrame, sent |-> TRUE]
    ELSE IF raises_for_status(resp)
    THEN [exc |-> "HTTPError", df |-> EmptyFrame, sent |-> TRUE]
    ELSE LET raw == Strip(resp.text)
         IN  IF raw = <<>> \/ StartsWith(Lower(raw), s_error)
             THEN [exc |-> "", df |-> EmptyFrame, sent |-> TRUE]
             ELSE [exc |-> "", df |-> keyword_frame(raw), sent |-> TRUE]

(***************************************************************************)
(* Topic Extractor: fetch_visible_text, extract_topics_with_openai         *)
(*                                                                         *)
(* A page response is [net, status, visible], visible being the text the   *)
(* HTML parser yields once script/style/noscript are removed.  A language  *)
(* model answer is [ok, content]: ok = FALSE when the call raises.         *)
(***************************************************************************)
MaxChars == 15000
MaxTopics == 12
MaxTopicLen == 80

\* " ".join(text.split())
CollapseWhitespace(text) ==
    Join(SelectSeq(SplitOn(text, Whitespace), LAMBDA w : w # <<>>), <<" ">>)

fetch_visible_text(url, resp) ==
    IF url = <<>> \/ resp.net = "fail" \/ raises_for_status(resp)
    THEN <<>>
    ELSE Take(CollapseWhitespace(resp.visible), MaxChars)

\* lines 170-174: one topic per non-blank line, bullets stripped, truncated and capped
\* (the bullet character of line 171 is written "*": the module is ASCII text)
topics_of_content(content) ==
    LET lines == SelectSeq(SplitOn(Strip(content), {"\n"}), LAMBDA l : Strip(l) # <<>>)
        topics == [k \in DOMAIN lines |-> Strip(StripChars(lines[k], {"-", "*", " "}))]
    IN  Take([k \in DOMAIN topics |-> Take(topics[k], MaxTopicLen)], MaxTopics)

\* The call's outcome: the topics returned and whether a request went to the language
\* model.  No exception leaves the function.
extract_topics_with_openai(key, url, env) ==
    IF key = ""
    THEN [topics |-> <<>>, sent |-> FALSE]
    ELSE IF fetch_visible_text(url, env.page) = <<>>
    THEN [topics |-> <<>>, sent |-> FALSE]
    ELSE IF ~env.llm.ok
    THEN [topics |-> <<>>, sent |-> TRUE]
    ELSE [topics |-> topics_of_content(env.llm.content), sent |-> TRUE]

(***************************************************************************)
(* Gap Aggregator (deep tab and gap tab)                                   *)
(***************************************************************************)
\* str(cell) of a keyword cell: the missing value prints as "nan"
KeywordText(cell) == IF cell = <<>> THEN <<"n","a","n">> ELSE cell

\* set(df["Keyword"].astype(str).str.lower())
keyword_set(df) ==
    {Lower(KeywordText(df.rows[k][ColIndex(df.columns, c_Keyword)])) : k \in DOMAIN df.rows}

\* a variant of is_my_page that excludes every page of the user's domain
ExcludedByDomain(url, my_url) == my_url # <<>> /\ normalize_domain(url) = normalize_domain(my_url)

\* lines 302 and 313: the row of the user's own page
is_my_page(url, my_url) == my_url # <<>> /\ url = my_url

\* lines 285-305: the union of the lower-cased keywords of the competitors' frames
competitor_kw_union(serp_df, kw_by_url, my_url, use_semrush) ==
    UNION {LET dfk == Get(kw_by_url, serp_df[k].URL, EmptyFrame)
           IN  IF use_semrush /\ ~IsEmptyFrame(dfk) /\ ~is_my_page(serp_df[k].URL, my_url)
               THEN keyword_set(dfk)
               ELSE {} : k \in DOMAIN serp_df}

\* Counter: the items with their counts, in order of first insertion
CounterAdd(counts, x) ==
    IF \E i \in DOMAIN counts : counts[i].item = x
    THEN [i \in DOMAIN counts |->
             IF counts[i].item = x THEN [counts[i] EXCEPT !.n = @ + 1] ELSE counts[i]]
    ELSE Append(counts, [item |-> x, n |-> 1])

RECURSIVE CounterUpdate(_, _)
CounterUpdate(counts, items) ==
    IF items = <<>> THEN counts
    ELSE CounterUpdate(CounterAdd(counts, Head(items)), Tail(items))

\* lines 286, 308-314: the counts of the lower-cased topics of the competitors' pages
RECURSIVE competitor_topics_counts(_, _, _, _)
competitor_topics_counts(serp_df, topics_by_url, my_url, use_topics) ==
    IF serp_df = <<>> THEN <<>>
    ELSE LET n == Len(serp_df)
             before == competitor_topics_counts(SubSeq(serp_df, 1, n - 1), topics_by_url,
                                                my_url, use_topics)
             topics == Get(topics_by_url, serp_df[n].URL, <<>>)
         IN  IF use_topics /\ topics # <<>> /\ ~is_my_page(serp_df[n].URL, my_url)
             THEN CounterUpdate(before, [k \in DOMAIN topics |-> Lower(topics[k])])
             ELSE before

RECURSIVE InsertByCount(_, _)
InsertByCount(sorted, e) ==
    IF sorted = <<>> THEN <<e>>
    ELSE IF Head(sorted).n < e.n THEN <<e>> \o sorted
    ELSE <<Head(sorted)>> \o InsertByCount(Tail(sorted), e)

RECURSIVE ByCountDescending(_)
ByCountDescending(counts) ==
    IF counts = <<>> THEN <<>>
    ELSE InsertByCount(ByCountDescending(SubSeq(counts, 1, Len(counts) - 1)),
                       counts[Len(counts)])

\* [t for t, _ in Counter.most_common(n)]: by count, ties in order of first insertion
most_common(counts, n) ==
    LET sorted == Take(ByCountDescending(counts), n)
    IN  [k \in DOMAIN sorted |-> sorted[k].item]

GapTopN == 15
ExportTopN == 30

\* lines 355-356 and 410-411
topic_gap_of(top_competitor_topics, my_topics) ==
    SelectSeq(top_competitor_topics,
              LAMBDA t : t \notin {Lower(my_topics[k]) : k \in DOMAIN my_topics})

\* lines 326-327 and 399-400
kw_gap_of(kw_union, my_df) == SortedStrings(kw_union \ keyword_set(my_df))

(***************************************************************************)
(* Single calls of the helper functions                                    *)
(*                                                                         *)
(* probe holds the arguments of one call and, once the call has been made, *)
(* its result in out (<<>> before the call, <<result>> after).             *)
(***************************************************************************)
NoProbe == [fn |-> "none"]

s_example_com == <<"e","x","a","m","p","l","e",".","c","o","m">>
s_smeg_com == <<"s","m","e","g",".","c","o","m">>
s_evil_net == <<"e","v","i","l",".","n","e","t">>

\* "https://shop.example.com/x"
u_shop_example == s_https \o <<"s","h","o","p",".">> \o s_example_com \o <<"/","x">>
\* "https://example.com.evil.net"
u_example_evil == s_https \o s_example_com \o <<".">> \o s_evil_net
\* "https://notexample.com/"
u_notexample == s_https \o <<"n","o","t">> \o s_example_com \o <<"/">>
\* "https://www.Example.COM/path"
u_www_Example == s_https \o s_www \o <<"E","x","a","m","p","l","e",".","C","O","M">>
                   \o <<"/","p","a","t","h">>
\* "https://example.com"
u_example == s_https \o s_example_com
\* "not a url"
u_not_a_url == <<"n","o","t"," ","a"," ","u","r","l">>
\* "https://www.smeg.com/it/page"
u_smeg_page == s_https \o s_www \o s_smeg_com \o <<"/","i","t","/","p","a","g","e">>
\* "https://notsmeg.com/"
u_notsmeg == s_https \o <<"n","o","t">> \o s_smeg_com \o <<"/">>
\* "https://smeg.com:8080/"
u_smeg_port == s_https \o s_smeg_com \o <<":","8","0","8","0","/">>
\* "//smeg.com/x"
u_smeg_noscheme == <<"/","/">> \o s_smeg_com \o <<"/","x">>
\* "https://www.aeg.it/f"
u_aeg == s_https \o s_www \o <<"a","e","g",".","i","t","/","f">>

ProbeUrls ==
    {u_shop_example, u_example_evil, u_notexample, u_www_Example, u_example, u_not_a_url,
     u_smeg_page, u_notsmeg, u_smeg_port, u_smeg_noscheme, u_aeg, <<>>}

\* reference domains handed to belongs_to_site
ProbeSiteDomains == {<<>>, s_example_com, s_smeg_com, s_evil_net, <<"i","t">>}

\* what a user may type in the sidebar's domain field
ProbeMyDomains ==
    {<<>>, s_smeg_com, s_example_com, s_www \o <<"S","m","e","g",".","C","O","M">>,
     s_smeg_com \o <<"/","i","t">>}

InitDomainProbe ==
    probe \in [fn : {"belongs_to_site"}, url : ProbeUrls, dom : ProbeSiteDomains, out : {<<>>}]
           \cup [fn : {"my_site_flag"}, url : ProbeUrls, dom : ProbeMyDomains, out : {<<>>}]
           \cup [fn : {"normalize_domain"}, url : ProbeUrls, dom : {<<>>}, out : {<<>>}]

CallNormalizeDomain ==
    /\ probe.fn = "normalize_domain" /\ probe.out = <<>>
    /\ probe' = [probe EXCEPT !.out = <<normalize_domain(probe.url)>>]
    /\ UNCHANGED <<secrets, session_state, pc, loc, page, requests>>

CallBelongsToSite ==
    /\ probe.fn = "belongs_to_site" /\ probe.out = <<>>
    /\ probe' = [probe EXCEPT !.out = <<belongs_to_site(probe.url, probe.dom)>>]
    /\ UNCHANGED <<secrets, session_state, pc, loc, page, requests>>

\* lines 231-232: the flag of a result row against the sidebar's domain
CallMySiteFlag ==
    /\ probe.fn = "my_site_flag" /\ probe.out = <<>>
    /\ probe' = [probe EXCEPT !.out = <<belongs_to_site(probe.url, my_dom_norm_of(probe.dom))>>]
    /\ UNCHANGED <<secrets, session_state, pc, loc, page, requests>>

(***************************************************************************)
(* The keyword provider's payloads: a header line and up to MaxRows rows,  *)
(* every row with its own keyword, a position cell and a volume cell.      *)
(***************************************************************************)
MaxRows == 2

s_Search_Volume == <<"S","e","a","r","c","h"," ","V","o","l","u","m","e">>

\* header lines: the column codes asked for, the names the provider answers with, and
\* payloads lacking the position or the volume column
PayloadHeaders ==
    {<<c_Ph, c_Po, c_Nq, c_Ur>>,
     <<c_Keyword, c_Position, s_Search_Volume, c_Url>>,
     <<c_Keyword, c_Volume, c_Position>>,
     <<c_Ph, c_Po>>,
     <<c_Ph, c_Nq>>,
     <<c_Ph>>}

PositionCells == {<<"5">>, <<"2","0">>, <<"2","5">>, <<"x">>}
VolumeCells == {<<"1","0">>, <<"2","0">>, <<"x">>}
PayloadRows == [pos : PositionCells, vol : VolumeCells]
PayloadKeywords == <<<<"A">>, <<"b">>, <<"c">>, <<"D">>>>
PayloadTables ==
    [header : PayloadHeaders,
     rows : UNION {[1..n -> PayloadRows] : n \in 0..MaxRows}]

IsPositionName(c) == c \in {c_Po, c_Position}
IsVolumeName(c) == c \in {c_Nq, c_Volume}

\* the cell of row k under the column named c
PayloadCell(c, k, row) ==
    IF c \in {c_Ph, c_Keyword} THEN PayloadKeywords[k]
    ELSE IF IsPositionName(c) THEN row.pos
    ELSE IF c \in {c_Nq, c_Volume, s_Search_Volume} THEN row.vol
    ELSE <<"u">>

RECURSIVE PayloadLines(_, _)
PayloadLines(t, k) ==
    IF k > Len(t.rows) THEN <<>>
    ELSE <<"\n">>
         \o Join([j \in DOMAIN t.header |-> PayloadCell(t.header[j], k, t.rows[k])], <<";">>)
         \o PayloadLines(t, k + 1)

\* the text of the payload, semicolon-delimited
PayloadText(t) == Join(t.header, <<";">>) \o PayloadLines(t, 1)

\* "ERROR 50 :: NOTHING FOUND"
s_ERROR_50 == <<"E","R","R","O","R"," ","5","0"," ",":",":"," ","N","O","T","H","I","N","G",
                " ","F","O","U","N","D">>

NetworkFailure == [net |-> "fail", status |-> 0, text |-> <<>>]
HttpResponse(status, text) == [net |-> "ok", status |-> status, text |-> text]

FailingResponses ==
    {NetworkFailure, HttpResponse(500, <<>>), HttpResponse(403, s_ERROR_50),
     HttpResponse(200, <<>>), HttpResponse(200, <<" ", "\n">>),
     HttpResponse(200, s_ERROR_50), HttpResponse(200, <<"\n">> \o s_error \o <<"\n">>)}

InitKeywordProbe ==
    \/ \E key \in {"", "k"}, url \in {<<>>, u_aeg}, t \in PayloadTables :
          probe = [fn |-> "semrush_keywords_by_url", key |-> key, url |-> url,
                   given |-> <<t>>, resp |-> HttpResponse(200, PayloadText(t)), out |-> <<>>]
    \/ \E key \in {"", "k"}, url \in {<<>>, u_aeg}, r \in FailingResponses :
          probe = [fn |-> "semrush_keywords_by_url", key |-> key, url |-> url,
                   given |-> <<>>, resp |-> r, out |-> <<>>]

CallSemrushKeywordsByUrl ==
    /\ probe.fn = "semrush_keywords_by_url" /\ probe.out = <<>>
    /\ probe' = [probe EXCEPT
                    !.out = <<semrush_keywords_by_url(probe.key, probe.url, probe.resp)>>]
    /\ UNCHANGED <<secrets, session_state, pc, loc, page, requests>>

(***************************************************************************)
(* The environment of the script: what the user types and what the         *)
(* providers answer.                                                       *)
(***************************************************************************)
MaxResults == 2
Top10 == 10

Queries == {<<>>, <<" ">>, <<"q">>}
MyDomains == {<<>>, s_smeg_com}

\* "https://www.smeg.com/x"
u_smeg_other == s_https \o s_www \o s_smeg_com \o <<"/","x">>

\* the pages the search provider ranks, best first; a search returns some of them
Ranking == <<u_smeg_page, u_smeg_other, u_aeg>>
MyUrls == {<<>>, u_smeg_page}

RECURSIVE OrganicOf(_)
OrganicOf(S) ==
    IF S = {} THEN <<>>
    ELSE LET m == CHOOSE i \in S : \A j \in S : i <= j
         IN  <<[title |-> <<"t">>, link |-> Ranking[m]]>> \o OrganicOf(S \ {m})

OrganicLists ==
    {OrganicOf(S) : S \in {T \in SUBSET DOMAIN Ranking : Cardinality(T) <= MaxResults}}

\* the search provider refuses a request that carries no key
SerperResponses(key) ==
    IF key = ""
    THEN {[net |-> "ok", status |-> 403, organic |-> <<>>]}
    ELSE {[net |-> "fail", status |-> 0, organic |-> <<>>],
          [net |-> "ok", status |-> 500, organic |-> <<>>]}
         \cup {[net |-> "ok", status |-> 200, organic |-> o] : o \in OrganicLists}

Lines(cells) == Join([k \in DOMAIN cells |-> Join(cells[k], <<";">>)], <<"\n">>)

\* "Ph;Po;Nq" with keywords A (5, 20), b (3, 50), c (12, 90), d (25, 100)
kw_text_X ==
    Lines(<< <<c_Ph, c_Po, c_Nq>>,
             << <<"A">>, <<"5">>, <<"2","0">> >>,
             << <<"b">>, <<"3">>, <<"5","0">> >>,
             << <<"c">>, <<"1","2">>, <<"9","0">> >>,
             << <<"d">>, <<"2","5">>, <<"1","0","0">> >> >>)
\* "Ph;Po;Nq;Ur" with keywords B (1, 30), e (4, 10)
kw_text_Y ==
    Lines(<< <<c_Ph, c_Po, c_Nq, c_Ur>>,
             << <<"B">>, <<"1">>, <<"3","0">>, <<"u">> >>,
             << <<"e">>, <<"4">>, <<"1","0">>, <<"u">> >> >>)

KwResponses ==
    {HttpResponse(500, <<>>), HttpResponse(200, s_ERROR_50),
     HttpResponse(200, kw_text_X), HttpResponse(200, kw_text_Y)}

PageFails == [net |-> "fail", status |-> 0, visible |-> <<>>]
PageOk == [net |-> "ok", status |-> 200, visible |-> <<"p", " ", "\n", "q">>]
LlmRaises == [ok |-> FALSE, content |-> <<>>]
\* eight topics, the first bulleted and capitalised: "- A", "b", ..., "h"
llm_content_A ==
    Join(<< <<"-"," ","A">>, <<"b">>, <<"c">>, <<"d">>, <<"e">>, <<"f">>, <<"g">>, <<"h">> >>,
         <<"\n">>)
\* nine topics after a blank line: "a", "i", ..., "p"
llm_content_B ==
    Join(<< <<"a">>, <<>>, <<"i">>, <<"j">>, <<"k">>, <<"l">>, <<"m">>, <<"n">>, <<"o">>,
            <<"p">> >>, <<"\n">>) \o <<"\n">>

TopicEnvs ==
    {[page |-> PageFails, llm |-> LlmRaises],
     [page |-> PageOk, llm |-> LlmRaises],
     [page |-> PageOk, llm |-> [ok |-> TRUE, content |-> llm_content_A]],
     [page |-> PageOk, llm |-> [ok |-> TRUE, content |-> llm_content_B]]}

(***************************************************************************)
(* Result Fetcher: serper_top10                                            *)
(***************************************************************************)
\* The request is sent whatever the key; exc is the exception that leaves the function.
serper_top10(key, query, resp) ==
    IF resp.net = "fail" THEN [exc |-> "ConnectionError", df |-> <<>>]
    ELSE IF raises_for_status(resp) THEN [exc |-> "HTTPError", df |-> <<>>]
    ELSE LET items == Take(resp.organic, Top10)
         IN  [exc |-> "",
              df |-> [k \in DOMAIN items |->
                         [Pos |-> k, Titolo |-> items[k].title, URL |-> items[k].link]]]

(***************************************************************************)
(* The script: session state, the run block, the render block              *)
(***************************************************************************)
Put(f, k, v) == (k :> v) @@ f
Pop(f, k) == [x \in DOMAIN f \ {k} |-> f[x]]

\* a call of a provider function: the key it found, whether a request was sent, the
\* exception it raised ("" when none) and what it returned
Call(api, key, url, sent, exc, result) ==
    [api |-> api, key |-> key, url |-> url, sent |-> sent, exc |-> exc, result |-> result]

\* a page that shows no analysis
PlainPage(msg) ==
    [msg |-> msg, exception |-> "", my_url |-> <<>>, use_semrush |-> FALSE,
     use_topics |-> FALSE, serp |-> <<>>, kw_union |-> {}, topic_counts |-> <<>>,
     kw_gap |-> <<>>, top_topics |-> <<>>, topic_gap |-> <<>>, xlsx |-> <<>>]

\* a variant of reset_session that forgets the results table only
ResetKeepsEnrichment(ss) == Pop(ss, "serp_df")

\* lines 211-213
reset_session(ss) == Pop(Pop(Pop(ss, "serp_df"), "kw_by_url"), "topics_by_url")

\* lines 210-217: the button is pressed; the query is checked
PressRun ==
    /\ pc = "idle"
    /\ \E query \in Queries :
         /\ session_state' = reset_session(session_state)
         /\ requests' = {}
         /\ IF Strip(query) = <<>>
            THEN pc' = "idle" /\ page' = PlainPage("warning_query") /\ loc' = <<>>
            ELSE pc' = "search" /\ page' = PlainPage("running") /\ loc' = [query |-> query]
    /\ UNCHANGED <<secrets, probe>>

\* lines 231-232
flag_rows(df, my_dom_norm) ==
    [k \in DOMAIN df |->
        [Pos |-> df[k].Pos, Titolo |-> df[k].Titolo, URL |-> df[k].URL,
         mine |-> belongs_to_site(df[k].URL, my_dom_norm)]]

\* lines 235-240
save_run(ss, serp_df, my_dom_norm, query, my_url, use_semrush, use_topics) ==
    Put(Put(Put(Put(Put(Put(ss, "serp_df", serp_df), "my_dom_norm", my_dom_norm),
        "query", query), "my_url", my_url), "use_semrush", use_semrush),
        "use_topics", use_topics)

\* lines 219-244: the search, its early stops, the flags, the session writes.  The
\* sidebar's values are read at lines 192-197; they are bound here, where the run
\* first uses them.
SearchFetch ==
    /\ pc = "search"
    /\ \E resp \in SerperResponses(secrets.serper), my_domain \in MyDomains,
          my_url \in MyUrls, use_semrush \in BOOLEAN, use_topics \in BOOLEAN :
         LET out == serper_top10(secrets.serper, loc.query, resp)
             my_dom_norm == my_dom_norm_of(my_domain)
             serp_df == flag_rows(out.df, my_dom_norm)
         IN  /\ requests' = requests \cup
                    {Call("serper", secrets.serper, <<>>, TRUE, out.exc, <<>>)}
             /\ IF out.exc # ""
                THEN /\ pc' = "idle" /\ page' = PlainPage("error_serper") /\ loc' = <<>>
                     /\ UNCHANGED session_state
                ELSE IF out.df = <<>>
                THEN /\ pc' = "idle" /\ page' = PlainPage("info_no_results") /\ loc' = <<>>
                     /\ UNCHANGED session_state
                ELSE /\ pc' = "enrich"
                     /\ session_state' = save_run(session_state, serp_df, my_dom_norm,
                                                  loc.query, my_url, use_semrush, use_topics)
                     /\ loc' = [serp_df |-> serp_df, use_semrush |-> use_semrush,
                                use_topics |-> use_topics, kw_by_url |-> <<>>,
                                topics_by_url |-> <<>>, i |-> 1]
                     /\ UNCHANGED page
    /\ UNCHANGED <<secrets, probe>>

\* a variant of store_keywords in which a failing call empties the whole map
StoreDropsAllOnError(kw_by_url, url, out) ==
    IF out.exc # "" THEN (url :> EmptyFrame) ELSE Put(kw_by_url, url, out.df)

\* lines 250-253
store_keywords(kw_by_url, url, out) ==
    Put(kw_by_url, url, IF out.exc # "" THEN EmptyFrame ELSE out.df)

\* lines 255-258
store_topics(topics_by_url, url, out) == Put(topics_by_url, url, out.topics)

\* lines 247-259: one pass of the loop over the result rows
EnrichUrl ==
    /\ pc = "enrich"
    /\ loc.use_semrush \/ loc.use_topics
    /\ loc.i <= Len(loc.serp_df)
    /\ \E kwresp \in KwResponses, tenv \in TopicEnvs :
       \E url \in {loc.serp_df[loc.i].URL} :
       \E kw \in {semrush_keywords_by_url(secrets.semrush, url, kwresp)},
          tp \in {extract_topics_with_openai(secrets.openai, url, tenv)} :
         /\ loc' = [loc EXCEPT
               !.kw_by_url = IF loc.use_semrush THEN store_keywords(@, url, kw) ELSE @,
               !.topics_by_url = IF loc.use_topics THEN store_topics(@, url, tp) ELSE @,
               !.i = @ + 1]
         /\ requests' = requests
              \cup (IF loc.use_semrush
                    THEN {Call("semrush", secrets.semrush, url, kw.sent, kw.exc, kw.df)}
                    ELSE {})
              \cup (IF loc.use_topics
                    THEN {Call("openai", secrets.openai, url, tp.sent, "", tp.topics)}
                    ELSE {})
    /\ UNCHANGED <<secrets, session_state, pc, page, probe>>

\* lines 261-264: the loop is over; the maps go to the session.  The record of calls
\* starts afresh for the render block.
FinishRun ==
    /\ pc = "enrich"
    /\ ~(loc.use_semrush \/ loc.use_topics) \/ loc.i > Len(loc.serp_df)
    /\ session_state' = Put(Put(session_state, "kw_by_url", loc.kw_by_url),
                            "topics_by_url", loc.topics_by_url)
    /\ pc' = "render"
    /\ loc' = <<>>
    /\ requests' = {}
    /\ UNCHANGED <<secrets, page, probe>>

\* an execution without the button (any other interaction): lines 210, 267, 420-422
Rerun ==
    /\ pc = "idle"
    /\ requests' = {}
    /\ loc' = <<>>
    /\ IF "serp_df" \in DOMAIN session_state
       THEN pc' = "render" /\ page' = PlainPage("running")
       ELSE pc' = "idle" /\ page' = PlainPage("start")
    /\ UNCHANGED <<secrets, session_state, probe>>

(***************************************************************************)
(* Report Builder: the export                                              *)
(***************************************************************************)
\* DataFrame.insert(0, "URL", url) raises ValueError when the frame has a URL column
insert_url_raises(dfk) == ColIndex(dfk.columns, c_URL) # 0

\* the first row of serp_df with this URL: a dict keeps one entry per key
FirstOfUrl(serp_df, k) == \A j \in 1..(k - 1) : serp_df[j].URL # serp_df[k].URL

\* lines 375-383: does building the Keywords_URL rows raise?
keywords_url_raises(use_semrush, kw_by_url) ==
    /\ use_semrush
    /\ \E u \in DOMAIN kw_by_url : ~IsEmptyFrame(kw_by_url[u]) /\ insert_url_raises(kw_by_url[u])

\* lines 376-381: the rows of the non-empty frames, each with its URL in front
RECURSIVE keywords_url_rows(_, _)
keywords_url_rows(serp_df, kw_by_url) ==
    IF serp_df = <<>> THEN <<>>
    ELSE LET n == Len(serp_df)
             url == serp_df[n].URL
             dfk == Get(kw_by_url, url, EmptyFrame)
         IN  keywords_url_rows(SubSeq(serp_df, 1, n - 1), kw_by_url)
             \o (IF url \in DOMAIN kw_by_url /\ FirstOfUrl(serp_df, n) /\ ~IsEmptyFrame(dfk)
                 THEN [k \in DOMAIN dfk.rows |-> <<url>> \o dfk.rows[k]]
                 ELSE <<>>)

\* lines 387-390
RECURSIVE topics_url_rows(_, _)
topics_url_rows(serp_df, topics_by_url) ==
    IF serp_df = <<>> THEN <<>>
    ELSE LET n == Len(serp_df)
             url == serp_df[n].URL
             topics == Get(topics_by_url, url, <<>>)
         IN  topics_url_rows(SubSeq(serp_df, 1, n - 1), topics_by_url)
             \o (IF url \in DOMAIN topics_by_url /\ FirstOfUrl(serp_df, n)
                 THEN [k \in DOMAIN topics |-> <<url, topics[k]>>]
                 ELSE <<>>)

\* line 405
export_top_topics(counts) == most_common(counts, ExportTopN)

\* lines 396-398: is the Keyword_Gap sheet written?
writes_keyword_gap(use_semrush, my_url, my_df, kw_union) ==
    use_semrush /\ my_url # <<>> /\ ~IsEmptyFrame(my_df)

\* lines 369-412: the sheets written, by name, each with its rows; r holds the values
\* the render block works with
export_sheets(r, kw_union, counts, my_df, my_topics) ==
    LET kwrows == keywords_url_rows(r.serp_df, r.kw_by_url)
        tprows == topics_url_rows(r.serp_df, r.topics_by_url)
        top == export_top_topics(counts)
    IN  ("SERP" :> r.serp_df)
        @@ (IF r.use_semrush /\ DOMAIN r.kw_by_url # {} /\ kwrows # <<>>
            THEN "Keywords_URL" :> kwrows ELSE <<>>)
        @@ (IF r.use_topics /\ DOMAIN r.topics_by_url # {} /\ tprows # <<>>
            THEN "Topics_URL" :> tprows ELSE <<>>)
        @@ (IF writes_keyword_gap(r.use_semrush, r.my_url, my_df, kw_union)
            THEN "Keyword_Gap" :> kw_gap_of(kw_union, my_df) ELSE <<>>)
        @@ (IF r.use_topics THEN "Competitor_Topics" :> top ELSE <<>>)
        @@ (IF r.use_topics /\ r.my_url # <<>>
            THEN "Topic_Gap" :> topic_gap_of(top, my_topics) ELSE <<>>)

(***************************************************************************)
(* The render block                                                        *)
(***************************************************************************)
\* lines 267-274: the values the render block works with
restore(ss) ==
    [serp_df |-> ss["serp_df"],
     my_url |-> Get(ss, "my_url", <<>>),
     use_semrush |-> Get(ss, "use_semrush", TRUE),
     use_topics |-> Get(ss, "use_topics", TRUE),
     kw_by_url |-> Get(ss, "kw_by_url", <<>>),
     topics_by_url |-> Get(ss, "topics_by_url", <<>>)]

\* a variant of shows_keyword_gap that ignores whether the user's table is empty
KwGapShownAlsoWhenUserEmpty(use_semrush, my_url, my_df) == use_semrush /\ my_url # <<>>

\* lines 323-325: is a keyword gap computed in the Gap view?
shows_keyword_gap(use_semrush, my_url, my_df) ==
    use_semrush /\ my_url # <<>> /\ ~IsEmptyFrame(my_df)

\* lines 276-419: the page and the calls of one rendering; kw / tp are the outcomes of
\* the keyword call and the topic call for the user's own page (the export's second
\* calls are answered from the memoised first ones)
render(r, kw, tp) ==
    LET kw_union == competitor_kw_union(r.serp_df, r.kw_by_url, r.my_url, r.use_semrush)
        counts == competitor_topics_counts(r.serp_df, r.topics_by_url, r.my_url, r.use_topics)
        asks_kw == r.use_semrush /\ r.my_url # <<>>
        asks_tp == r.use_topics /\ r.my_url # <<>>
        gap_raises == asks_kw /\ kw.exc # ""
        export_raises == keywords_url_raises(r.use_semrush, r.kw_by_url)
        top == most_common(counts, GapTopN)
        base == [PlainPage("rendered") EXCEPT
                    !.my_url = r.my_url, !.use_semrush = r.use_semrush,
                    !.use_topics = r.use_topics, !.serp = r.serp_df,
                    !.kw_union = kw_union, !.topic_counts = counts]
        gaps == [base EXCEPT
                    !.kw_gap = IF shows_keyword_gap(r.use_semrush, r.my_url, kw.df)
                               THEN <<kw_gap_of(kw_union, kw.df)>> ELSE <<>>,
                    !.top_topics = IF r.use_topics THEN <<top>> ELSE <<>>,
                    !.topic_gap = IF asks_tp THEN <<topic_gap_of(top, tp.topics)>> ELSE <<>>]
    IN  IF gap_raises
        THEN [page |-> [base EXCEPT !.msg = "exception", !.exception = kw.exc],
              asked_kw |-> TRUE, asked_tp |-> FALSE]
        ELSE IF export_raises
        THEN [page |-> [gaps EXCEPT !.msg = "exception", !.exception = "ValueError"],
              asked_kw |-> asks_kw, asked_tp |-> asks_tp]
        ELSE [page |-> [gaps EXCEPT
                          !.xlsx = <<export_sheets(r, kw_union, counts, kw.df, tp.topics)>>],
              asked_kw |-> asks_kw, asked_tp |-> asks_tp]

Render ==
    /\ pc = "render"
    /\ \E kwresp \in KwResponses, tenv \in TopicEnvs :
       \E r \in {restore(session_state)} :
       \E kw \in {semrush_keywords_by_url(secrets.semrush, r.my_url, kwresp)},
          tp \in {extract_topics_with_openai(secrets.openai, r.my_url, tenv)} :
       \E out \in {render(r, kw, tp)} :
         /\ page' = out.page
         /\ requests' =
              (IF out.asked_kw
               THEN {Call("semrush", secrets.semrush, r.my_url, kw.sent, kw.exc, kw.df)}
               ELSE {})
              \cup (IF out.asked_tp
                    THEN {Call("openai", secrets.openai, r.my_url, tp.sent, "", tp.topics)}
                    ELSE {})
    /\ pc' = "idle"
    /\ UNCHANGED <<secrets, session_state, loc, probe>>

(***************************************************************************)
(* Specifications                                                          *)
(***************************************************************************)
InitAppIdle ==
    /\ session_state = <<>>
    /\ pc = "idle"
    /\ loc = <<>>
    /\ page = PlainPage("start")
    /\ requests = {}

Init ==
    /\ secrets \in [serper : {"", "k"}, semrush : {"", "k"}, openai : {"", "k"}]
    /\ InitAppIdle
    /\ probe = NoProbe

Next == PressRun \/ SearchFetch \/ EnrichUrl \/ FinishRun \/ Render \/ Rerun

Spec == Init /\ [][Next]_vars

AllKeys == [serper |-> "k", semrush |-> "k", openai |-> "k"]

InitDomain == secrets = AllKeys /\ InitAppIdle /\ InitDomainProbe

NextDomain == CallNormalizeDomain \/ CallBelongsToSite \/ CallMySiteFlag

SpecDomain == InitDomain /\ [][NextDomain]_vars

InitKeyword == secrets = AllKeys /\ InitAppIdle /\ InitKeywordProbe

NextKeyword == CallSemrushKeywordsByUrl

SpecKeyword == InitKeyword /\ [][NextKeyword]_vars

(***************************************************************************)
(* Properties of single calls                                              *)
(***************************************************************************)
\* the payload table handed to the provider's answer and the outcome of the call
GivenTable == probe.given[1]
Outcome == probe.out[1]

\* the call has been made and the provider's answer was a payload table
PayloadAnswered ==
    /\ probe.fn = "semrush_keywords_by_url" /\ probe.out # <<>> /\ probe.given # <<>>
    /\ probe.key # "" /\ probe.url # <<>>

GivenHasPosition == \E j \in DOMAIN GivenTable.header : IsPositionName(GivenTable.header[j])
GivenHasVolume == \E j \in DOMAIN GivenTable.header : IsVolumeName(GivenTable.header[j])

\* the rows of the payload that satisfy the bound of every filter column it has
GivenWithinBounds ==
    {k \in DOMAIN GivenTable.rows :
        /\ GivenHasPosition =>
              /\ to_numeric(GivenTable.rows[k].pos) # <<>>
              /\ to_numeric(GivenTable.rows[k].pos)[1] <= 20
        /\ GivenHasVolume =>
              /\ to_numeric(GivenTable.rows[k].vol) # <<>>
              /\ to_numeric(GivenTable.rows[k].vol)[1] >= 20}

\* the cell of an output row under a column, <<>> when the frame lacks the column
OutCell(df, k, name) ==
    IF ColIndex(df.columns, name) = 0 THEN <<>> ELSE df.rows[k][ColIndex(df.columns, name)]

\* C1: for every payload the keyword provider returns, every row of the table returned
\* by semrush_keywords_by_url has Position <= 20 when a Position column exists and
\* Volume >= 20 when a Volume column exists, and the rows returned are exactly the
\* payload's rows that satisfy the bound of every filter column present: a row with
\* Position 25 never appears, a row with Position 5 and Volume 10 never appears, a row
\* with Position 5 and Volume 20 always appears.
C1_FilterKeepsExactlyRowsWithinBounds ==
    PayloadAnswered =>
        LET df == Outcome.df
        IN  /\ Outcome.exc = ""
            /\ {OutCell(df, k, c_Keyword) : k \in DOMAIN df.rows}
                  = {PayloadKeywords[k] : k \in GivenWithinBounds}
            /\ Len(df.rows) = Cardinality(GivenWithinBounds)
            /\ \A k \in DOMAIN df.rows :
                  /\ ColIndex(df.columns, c_Position) # 0 =>
                        to_numeric(OutCell(df, k, c_Position))[1] <= 20
                  /\ ColIndex(df.columns, c_Volume) # 0 =>
                        to_numeric(OutCell(df, k, c_Volume))[1] >= 20
            /\ \A k \in DOMAIN GivenTable.rows :
                  LET row == GivenTable.rows[k]
                      shown == \E i \in DOMAIN df.rows :
                                  OutCell(df, i, c_Keyword) = PayloadKeywords[k]
                  IN  /\ (GivenHasPosition /\ row.pos = <<"2","5">>) => ~shown
                      /\ (GivenHasPosition /\ GivenHasVolume /\ row.pos = <<"5">>
                            /\ row.vol = <<"1","0">>) => ~shown
                      /\ (row.pos = <<"5">> /\ row.vol = <<"2","0">>) => shown

\* C1 witness: a payload with both filter columns whose first row has Position 25 and
\* whose second row has Position 5 and Volume 20; the call returned the second row only
C1_Witness ==
    /\ PayloadAnswered
    /\ GivenHasPosition /\ GivenHasVolume
    /\ GivenTable.rows = <<[pos |-> <<"2","5">>, vol |-> <<"2","0">>],
                           [pos |-> <<"5">>, vol |-> <<"2","0">>]>>
    /\ Len(Outcome.df.rows) = 1
    /\ OutCell(Outcome.df, 1, c_Keyword) = PayloadKeywords[2]

\* the inputs for which the specification promises an empty table
FailingInput ==
    \/ probe.key = ""
    \/ probe.url = <<>>
    \/ probe.resp.net = "fail"
    \/ probe.resp.status # 200
    \/ Strip(probe.resp.text) = <<>>
    \/ StartsWith(Lower(Strip(probe.resp.text)), s_error)

\* C2: semrush_keywords_by_url never raises to its caller; for a missing credential, an
\* empty URL, a network failure, a non-success status, an empty body or a body starting
\* with "error" the call returns an empty table.
C2_NeverRaisesToCaller ==
    (probe.fn = "semrush_keywords_by_url" /\ probe.out # <<>>) =>
        /\ Outcome.exc = ""
        /\ FailingInput => IsEmptyFrame(Outcome.df)

\* the URL's normalized host is the domain or one of its subdomains
HostEqualsOrSubdomain(url, dom) ==
    LET host == normalize_domain(url)
    IN  dom # <<>> /\ (host = dom \/ EndsWith(host, <<".">> \o dom))

\* C8: belongs_to_site(url, domain) is true exactly when the domain is non-empty and the
\* URL's normalized host equals the domain or is a subdomain of it (a host that merely
\* ends with the domain's characters, such as notexample.com, does not belong), and the
\* "is my site" flag of a result row equals this test against the normalized user domain.
C8_MembershipRespectsLabelBoundary ==
    /\ (probe.fn = "belongs_to_site" /\ probe.out # <<>>) =>
          probe.out[1] = HostEqualsOrSubdomain(probe.url, probe.dom)
    /\ (probe.fn = "my_site_flag" /\ probe.out # <<>>) =>
          probe.out[1] = HostEqualsOrSubdomain(probe.url, my_dom_norm_of(probe.dom))

(***************************************************************************)
(* Properties of the script                                                *)
(***************************************************************************)
\* an execution has rendered the stored run (possibly ending in an uncaught exception)
Rendered == pc = "idle" /\ page.msg \in {"rendered", "exception"}

\* an execution has rendered the stored run up to and including the Gap view
GapViewShown ==
    pc = "idle" /\ (page.msg = "rendered" \/ (page.msg = "exception" /\ page.exception = "ValueError"))

\* the export has been written
Exported == pc = "idle" /\ page.msg = "rendered" /\ page.xlsx # <<>>
Sheets == page.xlsx[1]

StoredKeywords == Get(session_state, "kw_by_url", <<>>)
StoredTopics == Get(session_state, "topics_by_url", <<>>)
UrlsOf(serp_df) == {serp_df[k].URL : k \in DOMAIN serp_df}

\* the result rows whose URL differs from the user's page URL
CompetitorRows == {k \in DOMAIN page.serp : page.serp[k].URL # page.my_url}

\* the lower-cased topics stored for result row k
LoweredTopics(k) ==
    LET topics == Get(StoredTopics, page.serp[k].URL, <<>>)
    IN  [j \in DOMAIN topics |-> Lower(topics[j])]

\* how many times topic t occurs among the competitors' stored topics
TopicOccurrences(t) ==
    Cardinality({p \in UNION {{<<k, j>> : j \in DOMAIN LoweredTopics(k)} : k \in CompetitorRows} :
                    LoweredTopics(p[1])[p[2]] = t})

\* C3: a result whose URL is string-equal to the user's page URL contributes nothing to
\* the competitor keyword union or to the competitor topic counts, and every other
\* result, also one on the user's own domain, contributes all of its lower-cased
\* keywords and topics: the union and the counts are those of the rows whose URL
\* differs from the user's page URL.
C3_ExclusionByExactUrlOnly ==
    Rendered =>
        /\ page.kw_union =
              IF page.use_semrush
              THEN UNION {keyword_set(Get(StoredKeywords, page.serp[k].URL, EmptyFrame)) :
                             k \in CompetitorRows}
              ELSE {}
        /\ \A i \in DOMAIN page.topic_counts :
              /\ page.use_topics
              /\ page.topic_counts[i].n = TopicOccurrences(page.topic_counts[i].item)
              /\ page.topic_counts[i].n >= 1
              /\ \A j \in DOMAIN page.topic_counts :
                    page.topic_counts[j].item = page.topic_counts[i].item => j = i
        /\ page.use_topics =>
              \A k \in CompetitorRows : \A j \in DOMAIN LoweredTopics(k) :
                 \E i \in DOMAIN page.topic_counts :
                    page.topic_counts[i].item = LoweredTopics(k)[j]

\* C3 witness: the results hold the user's page and another page of the same domain,
\* both with keywords and topics; the union is the other page's keywords alone
C3_Witness ==
    /\ Rendered
    /\ page.my_url = u_smeg_page
    /\ UrlsOf(page.serp) = {u_smeg_page, u_smeg_other}
    /\ page.use_semrush /\ page.use_topics
    /\ ~IsEmptyFrame(StoredKeywords[u_smeg_page])
    /\ ~IsEmptyFrame(StoredKeywords[u_smeg_other])
    /\ keyword_set(StoredKeywords[u_smeg_page]) # keyword_set(StoredKeywords[u_smeg_other])
    /\ page.kw_union = keyword_set(StoredKeywords[u_smeg_other])
    /\ StoredTopics[u_smeg_page] # <<>> /\ StoredTopics[u_smeg_other] # <<>>
    /\ StoredTopics[u_smeg_page] # StoredTopics[u_smeg_other]
    /\ Len(page.topic_counts) = Len(StoredTopics[u_smeg_other])

\* the keyword calls made for the user's page while rendering
MyKeywordCalls == {c \in requests : c.api = "semrush" /\ c.url = page.my_url}

\* ascending, without duplicates
IsSortedStrings(seq) == \A i \in 1..(Len(seq) - 1) : StrLess(seq[i], seq[i + 1])

\* seq lists, in ascending order, the competitor union minus the user's keywords
IsKeywordGap(seq, my_df) ==
    /\ Range(seq) = page.kw_union \ keyword_set(my_df)
    /\ IsSortedStrings(seq)

\* C4 (as stated): whenever keyword enrichment is enabled and a page URL is given, the
\* Gap view and the Keyword_Gap sheet hold the competitor union minus the user's
\* keyword set, also when the user's keyword set is empty.
C4_GapProducedForEveryUserSet ==
    (GapViewShown /\ page.use_semrush /\ page.my_url # <<>>) =>
        \E c \in MyKeywordCalls :
            /\ page.kw_gap # <<>> /\ IsKeywordGap(page.kw_gap[1], c.result)
            /\ Exported =>
                  /\ "Keyword_Gap" \in DOMAIN Sheets
                  /\ IsKeywordGap(Sheets["Keyword_Gap"], c.result)

\* C4 (amended): a keyword gap is produced, in the Gap view and in the Keyword_Gap
\* sheet, exactly when keyword enrichment is enabled, a page URL is given and the
\* keyword table of the user's page is not empty; it then lists, in ascending order,
\* the lower-cased competitor union minus the lower-cased user keyword set.
C4_GapIsUnionMinusUserWhenUserTableNonEmpty ==
    GapViewShown =>
        IF page.use_semrush /\ page.my_url # <<>>
        THEN \E c \in MyKeywordCalls :
                IF IsEmptyFrame(c.result)
                THEN /\ page.kw_gap = <<>>
                     /\ Exported => "Keyword_Gap" \notin DOMAIN Sheets
                ELSE /\ page.kw_gap # <<>> /\ IsKeywordGap(page.kw_gap[1], c.result)
                     /\ Exported =>
                           /\ "Keyword_Gap" \in DOMAIN Sheets
                           /\ IsKeywordGap(Sheets["Keyword_Gap"], c.result)
        ELSE /\ page.kw_gap = <<>>
             /\ Exported => "Keyword_Gap" \notin DOMAIN Sheets

\* C4 witness: competitors {a, b, c}, user {b}; the view and the sheet hold a, c
C4_Witness ==
    /\ Exported
    /\ page.kw_union = {<<"a">>, <<"b">>, <<"c">>}
    /\ \E c \in MyKeywordCalls : keyword_set(c.result) = {<<"b">>}
    /\ page.kw_gap = << << <<"a">>, <<"c">> >> >>
    /\ "Keyword_Gap" \in DOMAIN Sheets
    /\ Sheets["Keyword_Gap"] = << <<"a">>, <<"c">> >>

\* C5: the export only reshapes what the Gap view computed: the Competitor_Topics
\* sheet holds exactly the top list shown in the Gap view (the 15 most frequent
\* competitor topics) and the Topic_Gap sheet exactly the topic gap shown there.
C5_ExportReshapesGapView ==
    (Exported /\ page.use_topics) =>
        /\ Len(page.top_topics[1]) <= 15
        /\ "Competitor_Topics" \in DOMAIN Sheets => Sheets["Competitor_Topics"] = page.top_topics[1]
        /\ "Topic_Gap" \in DOMAIN Sheets =>
              /\ page.topic_gap # <<>>
              /\ Sheets["Topic_Gap"] = page.topic_gap[1]

\* C6: a sheet is written only if its table has rows; with both enrichments disabled
\* the export holds the SERP sheet alone.
C6_NoEmptySheet ==
    Exported =>
        /\ \A name \in DOMAIN Sheets : Sheets[name] # <<>>
        /\ (~page.use_semrush /\ ~page.use_topics) => DOMAIN Sheets = {"SERP"}

\* C5 failing input: two competitor pages whose topics are a..h and a, i..p (16 distinct
\* topics); the Gap view lists 15 of them, the Competitor_Topics sheet all 16
C5_FailingInput ==
    /\ Exported /\ page.use_topics
    /\ Len(page.topic_counts) = 16
    /\ Len(page.top_topics[1]) = 15
    /\ Len(Sheets["Competitor_Topics"]) = 16

\* C6 failing input: topics enabled, no topic extracted, no page URL given; the export
\* holds a Competitor_Topics sheet without rows
C6_FailingInput ==
    /\ Exported /\ page.use_topics /\ ~page.use_semrush /\ page.my_url = <<>>
    /\ page.topic_counts = <<>>
    /\ DOMAIN Sheets = {"SERP", "Competitor_Topics"}
    /\ Sheets["Competitor_Topics"] = <<>>

\* the calls of one provider function recorded for the current execution
CallsOf(api) == {c \in requests : c.api = api}

\* the result rows the loop has processed so far
ProcessedUrls == {loc.serp_df[j].URL : j \in 1..(loc.i - 1)}

EarlyStops == {"warning_query", "error_serper", "info_no_results"}
RunKeys == {"serp_df", "kw_by_url", "topics_by_url"}

\* C7: a failure of the search fetch stops the run with nothing stored and no
\* enrichment call made; an empty result list is reported as "no results", not as an
\* error; a failure of the keyword call for one result URL stores an empty table for
\* that URL only and every other URL keeps what was fetched for it; the loop never
\* stops the run, and the finished run holds an entry for every result URL in each
\* enabled map.
C7_FailuresAreContained ==
    /\ (pc = "idle" /\ page.msg = "error_serper") =>
          /\ RunKeys \cap DOMAIN session_state = {}
          /\ CallsOf("semrush") = {} /\ CallsOf("openai") = {}
          /\ \E c \in CallsOf("serper") : c.exc # ""
    /\ (pc = "idle" /\ page.msg = "info_no_results") =>
          /\ RunKeys \cap DOMAIN session_state = {}
          /\ CallsOf("semrush") = {} /\ CallsOf("openai") = {}
          /\ \A c \in CallsOf("serper") : c.exc = ""
    /\ pc = "enrich" =>
          /\ page.msg = "running"
          /\ ENABLED (EnrichUrl \/ FinishRun)
          /\ DOMAIN loc.kw_by_url = IF loc.use_semrush THEN ProcessedUrls ELSE {}
          /\ DOMAIN loc.topics_by_url = IF loc.use_topics THEN ProcessedUrls ELSE {}
          /\ \A u \in DOMAIN loc.kw_by_url :
                \E c \in CallsOf("semrush") :
                   /\ c.url = u
                   /\ loc.kw_by_url[u] = IF c.exc # "" THEN EmptyFrame ELSE c.result
          /\ \A u \in DOMAIN loc.topics_by_url :
                \E c \in CallsOf("openai") : c.url = u /\ loc.topics_by_url[u] = c.result
    /\ (pc = "render" /\ page.msg = "running" /\ "kw_by_url" \in DOMAIN session_state) =>
          /\ DOMAIN session_state["kw_by_url"] =
                IF session_state["use_semrush"] THEN UrlsOf(session_state["serp_df"]) ELSE {}
          /\ DOMAIN session_state["topics_by_url"] =
                IF session_state["use_topics"] THEN UrlsOf(session_state["serp_df"]) ELSE {}

\* C7 witness: the keyword call for the second result raised, the first result keeps
\* its keywords, the second holds an empty table, and the loop is over
C7_Witness ==
    /\ pc = "enrich" /\ loc.use_semrush /\ loc.use_topics
    /\ Len(loc.serp_df) = 2 /\ loc.i = 3
    /\ \E c \in CallsOf("semrush") : c.url = loc.serp_df[2].URL /\ c.exc = "HTTPError"
    /\ ~IsEmptyFrame(loc.kw_by_url[loc.serp_df[1].URL])
    /\ loc.kw_by_url[loc.serp_df[2].URL] = EmptyFrame
    /\ loc.topics_by_url[loc.serp_df[1].URL] # <<>>
    /\ loc.topics_by_url[loc.serp_df[2].URL] = <<>>

\* C9: a missing credential never aborts the run and no request carrying an empty
\* credential is sent: with no keyword key every keyword table is empty, with no
\* language-model key every topic list is empty, with no search key the run does not
\* end in the aborting error path.
C9_MissingCredentialDegrades ==
    /\ \A c \in requests : c.sent => c.key # ""
    /\ secrets.semrush = "" => \A c \in CallsOf("semrush") : IsEmptyFrame(c.result) /\ c.exc = ""
    /\ secrets.openai = "" => \A c \in CallsOf("openai") : c.result = <<>>
    /\ secrets.serper = "" => page.msg # "error_serper"

\* C9 failing input: no search key; the search request went out with an empty key
C9_FailingInput ==
    /\ secrets.serper = ""
    /\ \E c \in CallsOf("serper") : c.sent /\ c.key = ""

\* C10: the results table and the two per-URL maps in the session always come from one
\* run: pressing run removes all three, so after a run that stops early none of them is
\* stored and nothing of an earlier run is on the page or in an export; once the search
\* has succeeded the table is the current run's and the maps are absent until the loop
\* is over; a rendering shows the stored table with the page URL and the enrichment
\* switches stored by that run, and the maps hold entries for that table's URLs only.
C10_SessionHoldsOneRun ==
    /\ (pc = "search" \/ (pc = "idle" /\ page.msg \in EarlyStops \cup {"start"})) =>
          /\ RunKeys \cap DOMAIN session_state = {}
          /\ page.serp = <<>> /\ page.xlsx = <<>>
          /\ page.kw_union = {} /\ page.topic_counts = <<>>
    /\ pc = "enrich" =>
          /\ RunKeys \cap DOMAIN session_state = {"serp_df"}
          /\ session_state["serp_df"] = loc.serp_df
    /\ (pc = "render" \/ Rendered) =>
          /\ RunKeys \subseteq DOMAIN session_state
          /\ DOMAIN session_state["kw_by_url"] =
                IF session_state["use_semrush"] THEN UrlsOf(session_state["serp_df"]) ELSE {}
          /\ DOMAIN session_state["topics_by_url"] =
                IF session_state["use_topics"] THEN UrlsOf(session_state["serp_df"]) ELSE {}
    /\ Rendered =>
          /\ page.serp = session_state["serp_df"]
          /\ page.my_url = session_state["my_url"]
          /\ page.use_semrush = session_state["use_semrush"]
          /\ page.use_topics = session_state["use_topics"]

\* C10 witness: a run stopped at the search error after an earlier run had completed
\* (its page URL is still in the session), and nothing of the earlier run is left
C10_Witness ==
    /\ pc = "idle" /\ page.msg = "error_serper"
    /\ "my_url" \in DOMAIN session_state
    /\ RunKeys \cap DOMAIN session_state = {}

====
